---- MODULE Spec2Model ----
(***************************************************************************)
(* The point types of gtsam's geometry layer: Point2 (Point2.h, kept as    *)
(* src/unnamed/part_000), Point3 (src/geometry/Point3.h) and StereoPoint2  *)
(* (src/geometry/StereoPoint2.h).                                          *)
(*                                                                         *)
(* Every operation is a pure function of value types, so the state is one  *)
(* call: the function about to be invoked (call), its operands, the        *)
(* caller's Jacobian matrices, and, once the call has run, what it         *)
(* returned and what it left in the caller's matrices.  Init draws the     *)
(* call and its operands; one action per function executes it.             *)
(*                                                                         *)
(* A C++ double is modelled as a small binary floating-point format with   *)
(* MantBits significand bits, round-to-nearest-even, overflow to infinity  *)
(* and NaN, so that rounding, which decides the algebraic laws, happens.   *)
(* A finite value is the integer it denotes; operands are finite (the      *)
(* data model's fields are reals).                                         *)
(***************************************************************************)
EXTENDS Integers, Sequences, FiniteSets

VARIABLES call, pc, ty, p, q, r, v, tol, req1, req2, H1, H2,
          ret, retVec, retBool, retNum

vars == <<call, pc, ty, p, q, r, v, tol, req1, req2, H1, H2,
          ret, retVec, retBool, retNum>>

(***************************************************************************)
(* Bounds of the model.                                                    *)
(***************************************************************************)
\* significand bits of the modelled double (53 in the build)
MantBits == 2
\* largest binary exponent of the modelled double (1023 in the build)
MaxExp == 2
\* operands of the one- and two-operand calls: |coordinate| <= MaxCoord
MaxCoord == 3
\* operands of equals and of the Jacobian calls, entries of the vectors handed
\* to a constructor: |coordinate| <= MaxSmall
MaxSmall == 1
\* operands of the three-operand Point2 call: 0 <= coordinate <= MaxTriple2
MaxTriple2 == 3
\* operands of the three-operand Point3 and StereoPoint2 calls
MaxTriple3 == 1
\* longest coordinate vector handed to a constructor
MaxVecLen == 4
\* largest tolerance handed to equals
MaxTol == 2

(***************************************************************************)
(* double                                                                  *)
(***************************************************************************)
RECURSIVE Pow2(_)
Pow2(n) == IF n = 0 THEN 1 ELSE 2 * Pow2(n - 1)

Abs(x) == IF x < 0 THEN -x ELSE x

\* the non-negative finite values: m * 2^e, m < 2^MantBits
FinitePos == {m * Pow2(e) : m \in 0..(Pow2(MantBits) - 1), e \in 0..MaxExp}

MaxFinite == (Pow2(MantBits) - 1) * Pow2(MaxExp)

\* the value after MaxFinite, were the exponent range one larger
Overflow == Pow2(MantBits + MaxExp)

PosInf == MaxFinite + 1
NegInf == -PosInf
NaN == MaxFinite + 2

Finite == FinitePos \cup {-f : f \in FinitePos}

IsFinite(a) == a \in Finite

\* round-to-nearest, ties to the even significand, of the exact value x >= 0
Nearest(x) ==
  LET grid == FinitePos \cup {Overflow}
      lo == CHOOSE f \in grid : f <= x /\ \A g \in grid : g <= x => g <= f
      hi == CHOOSE f \in grid : f >= x /\ \A g \in grid : g >= x => f <= g
  IN IF lo = hi THEN lo
     ELSE IF 2 * x < lo + hi THEN lo
     ELSE IF 2 * x > lo + hi THEN hi
     ELSE IF (lo \div (hi - lo)) % 2 = 0 THEN lo ELSE hi

RoundTab == [x \in 0..Overflow |-> IF Nearest(x) = Overflow THEN PosInf ELSE Nearest(x)]

\* the double nearest to the exact integer x
Round(x) ==
  IF Abs(x) >= Overflow THEN (IF x < 0 THEN NegInf ELSE PosInf)
  ELSE IF x < 0 THEN -RoundTab[-x] ELSE RoundTab[x]

FNeg(a) == IF a = NaN THEN NaN ELSE -a

FAdd(a, b) ==
  IF a = NaN \/ b = NaN THEN NaN
  ELSE IF ~IsFinite(a) /\ ~IsFinite(b) THEN (IF a = b THEN a ELSE NaN)
  ELSE IF ~IsFinite(a) THEN a
  ELSE IF ~IsFinite(b) THEN b
  ELSE Round(a + b)

FSub(a, b) == FAdd(a, FNeg(b))

FMul(a, b) ==
  IF a = NaN \/ b = NaN THEN NaN
  ELSE IF ~IsFinite(a) \/ ~IsFinite(b)
       THEN (IF a = 0 \/ b = 0 THEN NaN
             ELSE IF (a < 0) = (b < 0) THEN PosInf ELSE NegInf)
  ELSE Round(a * b)

fabs(a) == IF a = NaN THEN NaN ELSE Abs(a)

\* a < b on doubles: false when either is NaN
FLess(a, b) == a # NaN /\ b # NaN /\ a < b

\* a == b on doubles: false when either is NaN
FEq(a, b) == a # NaN /\ b # NaN /\ a = b

\* the double nearest to the square root of the finite double n >= 0
NearestSqrt(n) ==
  LET lo == CHOOSE f \in FinitePos : f * f <= n /\ \A g \in FinitePos : g * g <= n => g <= f
      hi == CHOOSE f \in FinitePos : f * f >= n /\ \A g \in FinitePos : g * g >= n => f <= g
  IN IF lo = hi THEN lo
     ELSE IF 4 * n < (lo + hi) * (lo + hi) THEN lo
     ELSE IF 4 * n > (lo + hi) * (lo + hi) THEN hi
     ELSE IF (lo \div (hi - lo)) % 2 = 0 THEN lo ELSE hi

SqrtTab == [n \in FinitePos |-> NearestSqrt(n)]

sqrt(a) ==
  IF a = NaN \/ a < 0 THEN NaN
  ELSE IF a = PosInf THEN PosInf
  ELSE SqrtTab[a]

\* pow(a, 2.0)
pow2(a) == FMul(a, a)

(***************************************************************************)
(* Vector and Matrix.  A Vector is a sequence of doubles; the source's     *)
(* v(i) is 0-based.  Reading past the end is undefined: the read yields    *)
(* whatever lies there (g[i+1]) unless the call faults (see the actions).  *)
(***************************************************************************)
InRange(vv, i) == i + 1 <= Len(vv)

VecAt(vv, i, g) == IF InRange(vv, i) THEN vv[i + 1] ELSE g[i + 1]

eye(n) == [i \in 1..n |-> [j \in 1..n |-> IF i = j THEN 1 ELSE 0]]

MatNeg(m) == [i \in 1..Len(m) |-> [j \in 1..Len(m[i]) |-> FNeg(m[i][j])]]

(***************************************************************************)
(* Point2                                                                  *)
(***************************************************************************)
Point2(x, y) == [x |-> x, y |-> y]

Point2_default == Point2(0, 0)

Point2_fromVector(vv, g) == Point2(VecAt(vv, 0, g), VecAt(vv, 1, g))

Point2_operatorNeg(a) == Point2(FNeg(a.x), FNeg(a.y))

Point2_operatorEq(a, b) == FEq(a.x, b.x) /\ FEq(b.y, b.y)

\* operator+ with the second sum reading q.x_ for q.y_
Point2_operatorPlus_typo(a, b) == Point2(FAdd(a.x, b.x), FAdd(a.y, b.x))

Point2_operatorPlus(a, b) == Point2(FAdd(a.x, b.x), FAdd(a.y, b.y))

Point2_operatorMinus(a, b) == Point2(FSub(a.x, b.x), FSub(a.y, b.y))

Point2_compose(a, p1) == Point2_operatorPlus(a, p1)

Point2_inverse(a) == Point2(FNeg(a.x), FNeg(a.y))

Point2_Expmap(vv, g) == Point2_fromVector(vv, g)

\* Logmap with the two coordinates in the wrong order
Point2_Logmap_swapped(dp) == <<dp.y, dp.x>>

Point2_Logmap(dp) == <<dp.x, dp.y>>

Point2_vector(a) == <<a.x, a.y>>

Point2_norm(a) == sqrt(FAdd(FMul(a.x, a.x), FMul(a.y, a.y)))

Point2_dist(a, p2) == Point2_norm(Point2_operatorMinus(p2, a))

(***************************************************************************)
(* Point3                                                                  *)
(***************************************************************************)
Point3(x, y, z) == [x |-> x, y |-> y, z |-> z]

Point3_default == Point3(0, 0, 0)

Point3_fromVector(vv, g) == Point3(VecAt(vv, 0, g), VecAt(vv, 1, g), VecAt(vv, 2, g))

Point3_operatorEq(a, b) == FEq(a.x, b.x) /\ FEq(a.y, b.y) /\ FEq(a.z, b.z)

Point3_operatorPlus(a, b) == Point3(FAdd(a.x, b.x), FAdd(a.y, b.y), FAdd(a.z, b.z))

Point3_inverse(a) == Point3(FNeg(a.x), FNeg(a.y), FNeg(a.z))

Point3_compose(a, p1) == Point3_operatorPlus(a, p1)

Point3_Expmap(vv, g) == Point3_fromVector(vv, g)

Point3_Logmap(dp) == <<dp.x, dp.y, dp.z>>

Point3_vector(a) == <<a.x, a.y, a.z>>

Point3_dist(a, p2) ==
  sqrt(FAdd(FAdd(pow2(FSub(a.x, p2.x)), pow2(FSub(a.y, p2.y))), pow2(FSub(a.z, p2.z))))

(***************************************************************************)
(* StereoPoint2                                                            *)
(***************************************************************************)
StereoPoint2(uL, uR, vv) == [uL |-> uL, uR |-> uR, v |-> vv]

StereoPoint2_default == StereoPoint2(0, 0, 0)

\* equals with <= for <
StereoPoint2_equals_le(a, b, t) ==
  /\ ~FLess(t, fabs(FSub(a.uL, b.uL)))
  /\ ~FLess(t, fabs(FSub(a.uR, b.uR)))
  /\ ~FLess(t, fabs(FSub(a.v, b.v)))

StereoPoint2_equals(a, b, t) ==
  /\ FLess(fabs(FSub(a.uL, b.uL)), t)
  /\ FLess(fabs(FSub(a.uR, b.uR)), t)
  /\ FLess(fabs(FSub(a.v, b.v)), t)

StereoPoint2_vector(a) == <<a.uL, a.uR, a.v>>

StereoPoint2_operatorPlus(a, b) ==
  StereoPoint2(FAdd(a.uL, b.uL), FAdd(a.uR, b.uR), FAdd(a.v, b.v))

StereoPoint2_operatorMinus(a, b) ==
  StereoPoint2(FSub(a.uL, b.uL), FSub(a.uR, b.uR), FSub(a.v, b.v))

StereoPoint2_compose(a, p1) == StereoPoint2_operatorPlus(a, p1)

\* inverse with the operands of the subtraction exchanged
StereoPoint2_inverse_swapped(a) == StereoPoint2_operatorMinus(a, StereoPoint2_default)

StereoPoint2_inverse(a) == StereoPoint2_operatorMinus(StereoPoint2_default, a)

StereoPoint2_Expmap(d, g) == StereoPoint2(VecAt(d, 0, g), VecAt(d, 1, g), VecAt(d, 2, g))

StereoPoint2_Logmap(a) == StereoPoint2_vector(a)

(***************************************************************************)
(* The Lie layer: the calls every type answers, by type.                   *)
(***************************************************************************)
Types == {"Point2", "Point3", "StereoPoint2"}

dimension(t) == IF t = "Point2" THEN 2 ELSE 3

Identity(t) ==
  CASE t = "Point2" -> Point2_default
    [] t = "Point3" -> Point3_default
    [] t = "StereoPoint2" -> StereoPoint2_default

compose(t, a, b) ==
  CASE t = "Point2" -> Point2_compose(a, b)
    [] t = "Point3" -> Point3_compose(a, b)
    [] t = "StereoPoint2" -> StereoPoint2_compose(a, b)

inverse(t, a) ==
  CASE t = "Point2" -> Point2_inverse(a)
    [] t = "Point3" -> Point3_inverse(a)
    [] t = "StereoPoint2" -> StereoPoint2_inverse(a)

Expmap(t, vv, g) ==
  CASE t = "Point2" -> Point2_Expmap(vv, g)
    [] t = "Point3" -> Point3_Expmap(vv, g)
    [] t = "StereoPoint2" -> StereoPoint2_Expmap(vv, g)

Logmap(t, a) ==
  CASE t = "Point2" -> Point2_Logmap(a)
    [] t = "Point3" -> Point3_Logmap(a)
    [] t = "StereoPoint2" -> StereoPoint2_Logmap(a)

dist(t, a, b) == IF t = "Point2" THEN Point2_dist(a, b) ELSE Point3_dist(a, b)

operatorEq(t, a, b) ==
  IF t = "Point2" THEN Point2_operatorEq(a, b) ELSE Point3_operatorEq(a, b)

(***************************************************************************)
(* The free functions on Point2, with and without Jacobian slots.  A slot  *)
(* is a boost::optional<Matrix&>: whether it is set (r1, r2) and the       *)
(* caller's matrix it refers to (h1, h2).  The result is the returned      *)
(* point and what the caller's two matrices hold afterwards.               *)
(***************************************************************************)
\* compose that fills the first slot without looking whether it is set
compose_H_always(p1, p2, r1, r2, h1, h2) ==
  [ret |-> compose("Point2", p1, p2),
   H1 |-> eye(2),
   H2 |-> IF r2 THEN eye(2) ELSE h2]

compose_H(p1, p2, r1, r2, h1, h2) ==
  [ret |-> compose("Point2", p1, p2),
   H1 |-> IF r1 THEN eye(2) ELSE h1,
   H2 |-> IF r2 THEN eye(2) ELSE h2]

\* between with the operands of the subtraction exchanged
between_swapped(p1, p2) == Point2_operatorMinus(p1, p2)

between(p1, p2) == Point2_operatorMinus(p2, p1)

\* between whose first Jacobian lacks the sign
between_H_nosign(p1, p2, r1, r2, h1, h2) ==
  [ret |-> between(p1, p2),
   H1 |-> IF r1 THEN eye(2) ELSE h1,
   H2 |-> IF r2 THEN eye(2) ELSE h2]

between_H(p1, p2, r1, r2, h1, h2) ==
  [ret |-> between(p1, p2),
   H1 |-> IF r1 THEN MatNeg(eye(2)) ELSE h1,
   H2 |-> IF r2 THEN eye(2) ELSE h2]

(***************************************************************************)
(* The operands calls are made with.                                       *)
(***************************************************************************)
Coords == {k \in Finite : Abs(k) <= MaxCoord}

Small == {k \in Finite : Abs(k) <= MaxSmall}

TripleCoords(t) ==
  IF t = "Point2" THEN {k \in FinitePos : k <= MaxTriple2}
  ELSE {k \in FinitePos : k <= MaxTriple3}

Tols == {k \in FinitePos : k <= MaxTol}

Points(t, S) ==
  CASE t = "Point2" -> {Point2(a, b) : a \in S, b \in S}
    [] t = "Point3" -> {Point3(a[1], a[2], a[3]) : a \in S \X S \X S}
    [] t = "StereoPoint2" -> {StereoPoint2(a[1], a[2], a[3]) : a \in S \X S \X S}

Vectors(S) == UNION {[1..n -> S] : n \in 0..MaxVecLen}

\* what a read past the end of a vector may find, per index
Garbage == [1..3 -> Small]

\* a matrix the caller may hold before the call: empty, or 2x2 zeros
CallerMatrices == {<< >>, [i \in 1..2 |-> [j \in 1..2 |-> 0]]}

NoPoint == [none |-> TRUE]

(***************************************************************************)
(* The state before a call: the call and its operands.                     *)
(***************************************************************************)
Pending(c, t, a, b, d, vv, tl, r1, r2, h1, h2) ==
  /\ call = c /\ pc = "ready" /\ ty = t
  /\ p = a /\ q = b /\ r = d /\ v = vv /\ tol = tl
  /\ req1 = r1 /\ req2 = r2 /\ H1 = h1 /\ H2 = h2
  /\ ret = NoPoint /\ retVec = << >> /\ retBool = FALSE /\ retNum = 0

Init ==
  \/ \E t \in Types : \E vv \in Vectors(Small) :
       Pending("Expmap", t, NoPoint, NoPoint, NoPoint, vv, 0, FALSE, FALSE, << >>, << >>)
  \/ \E t \in Types : \E vv \in [1..dimension(t) -> Coords] :
       Pending("LogmapExpmap", t, NoPoint, NoPoint, NoPoint, vv, 0, FALSE, FALSE, << >>, << >>)
  \/ \E c \in {"Logmap", "ExpmapLogmap", "composeInverse"} :
       \E t \in Types : \E a \in Points(t, Coords) :
         Pending(c, t, a, NoPoint, NoPoint, << >>, 0, FALSE, FALSE, << >>, << >>)
  \/ \E t \in Types : \E a \in Points(t, Coords), b \in Points(t, Coords) :
       Pending("compose", t, a, b, NoPoint, << >>, 0, FALSE, FALSE, << >>, << >>)
  \/ \E t \in Types : \E a \in Points(t, TripleCoords(t)), b \in Points(t, TripleCoords(t)),
                         d \in Points(t, TripleCoords(t)) :
       Pending("composeAssoc", t, a, b, d, << >>, 0, FALSE, FALSE, << >>, << >>)
  \/ \E c \in {"between", "operator=="} :
       \E a \in Points("Point2", Coords), b \in Points("Point2", Coords) :
         Pending(c, "Point2", a, b, NoPoint, << >>, 0, FALSE, FALSE, << >>, << >>)
  \/ \E t \in {"Point2", "Point3"} :
       \E a \in Points(t, Coords), b \in Points(t, Coords) :
         Pending("dist", t, a, b, NoPoint, << >>, 0, FALSE, FALSE, << >>, << >>)
  \/ \E a \in Points("StereoPoint2", Small), b \in Points("StereoPoint2", Small) :
       \E tl \in Tols :
         Pending("equals", "StereoPoint2", a, b, NoPoint, << >>, tl, FALSE, FALSE, << >>, << >>)
  \/ \E c \in {"composeJ", "betweenJ"} :
       \E a \in Points("Point2", Small), b \in Points("Point2", Small) :
         \E r1 \in BOOLEAN, r2 \in BOOLEAN, h1 \in CallerMatrices, h2 \in CallerMatrices :
           Pending(c, "Point2", a, b, NoPoint, << >>, 0, r1, r2, h1, h2)

operands == <<call, ty, p, q, r, v, tol, req1, req2>>

(***************************************************************************)
(* The calls.                                                              *)
(***************************************************************************)
\* T::Expmap(v), which for Point2 and Point3 is the constructor T(const Vector&)
ExpmapCall ==
  /\ pc = "ready" /\ call = "Expmap"
  /\ IF Len(v) >= dimension(ty)
     THEN /\ ret' = Expmap(ty, v, <<0, 0, 0>>)
          /\ pc' = "done"
     ELSE \/ /\ pc' = "fault"
             /\ ret' = NoPoint
          \/ \E g \in Garbage :
               /\ ret' = Expmap(ty, v, g)
               /\ pc' = "done"
  /\ UNCHANGED <<operands, H1, H2, retVec, retBool, retNum>>

\* T::Logmap(T::Expmap(v)), v of the type's dimension
LogmapExpmapCall ==
  /\ pc = "ready" /\ call = "LogmapExpmap"
  /\ retVec' = Logmap(ty, Expmap(ty, v, <<0, 0, 0>>))
  /\ pc' = "done"
  /\ UNCHANGED <<operands, H1, H2, ret, retBool, retNum>>

\* T::Logmap(p)
LogmapCall ==
  /\ pc = "ready" /\ call = "Logmap"
  /\ retVec' = Logmap(ty, p)
  /\ pc' = "done"
  /\ UNCHANGED <<operands, H1, H2, ret, retBool, retNum>>

\* T::Expmap(T::Logmap(p))
ExpmapLogmapCall ==
  /\ pc = "ready" /\ call = "ExpmapLogmap"
  /\ ret' = Expmap(ty, Logmap(ty, p), <<0, 0, 0>>)
  /\ pc' = "done"
  /\ UNCHANGED <<operands, H1, H2, retVec, retBool, retNum>>

\* p.compose(p.inverse())
ComposeInverseCall ==
  /\ pc = "ready" /\ call = "composeInverse"
  /\ ret' = compose(ty, p, inverse(ty, p))
  /\ pc' = "done"
  /\ UNCHANGED <<operands, H1, H2, retVec, retBool, retNum>>

\* p.compose(q)
ComposeCall ==
  /\ pc = "ready" /\ call = "compose"
  /\ ret' = compose(ty, p, q)
  /\ pc' = "done"
  /\ UNCHANGED <<operands, H1, H2, retVec, retBool, retNum>>

\* p.compose(q).compose(r)
ComposeAssocCall ==
  /\ pc = "ready" /\ call = "composeAssoc"
  /\ ret' = compose(ty, compose(ty, p, q), r)
  /\ pc' = "done"
  /\ UNCHANGED <<operands, H1, H2, retVec, retBool, retNum>>

\* between(p, q) on Point2
BetweenCall ==
  /\ pc = "ready" /\ call = "between"
  /\ ret' = between(p, q)
  /\ pc' = "done"
  /\ UNCHANGED <<operands, H1, H2, retVec, retBool, retNum>>

\* compose(p, q, H1, H2) on Point2
ComposeJCall ==
  /\ pc = "ready" /\ call = "composeJ"
  /\ LET out == compose_H(p, q, req1, req2, H1, H2)
     IN ret' = out.ret /\ H1' = out.H1 /\ H2' = out.H2
  /\ pc' = "done"
  /\ UNCHANGED <<operands, retVec, retBool, retNum>>

\* between(p, q, H1, H2) on Point2
BetweenJCall ==
  /\ pc = "ready" /\ call = "betweenJ"
  /\ LET out == between_H(p, q, req1, req2, H1, H2)
     IN ret' = out.ret /\ H1' = out.H1 /\ H2' = out.H2
  /\ pc' = "done"
  /\ UNCHANGED <<operands, retVec, retBool, retNum>>

\* p.equals(q, tol) on StereoPoint2
EqualsCall ==
  /\ pc = "ready" /\ call = "equals"
  /\ retBool' = StereoPoint2_equals(p, q, tol)
  /\ pc' = "done"
  /\ UNCHANGED <<operands, H1, H2, ret, retVec, retNum>>

\* p == q on Point2
OperatorEqCall ==
  /\ pc = "ready" /\ call = "operator=="
  /\ retBool' = Point2_operatorEq(p, q)
  /\ pc' = "done"
  /\ UNCHANGED <<operands, H1, H2, ret, retVec, retNum>>

\* p.dist(q) on Point2 and Point3
DistCall ==
  /\ pc = "ready" /\ call = "dist"
  /\ retNum' = dist(ty, p, q)
  /\ pc' = "done"
  /\ UNCHANGED <<operands, H1, H2, ret, retVec, retBool>>

Next ==
  \/ ExpmapCall
  \/ LogmapExpmapCall
  \/ LogmapCall
  \/ ExpmapLogmapCall
  \/ ComposeInverseCall
  \/ ComposeCall
  \/ ComposeAssocCall
  \/ BetweenCall
  \/ ComposeJCall
  \/ BetweenJCall
  \/ EqualsCall
  \/ OperatorEqCall
  \/ DistCall

Spec == Init /\ [][Next]_vars

(***************************************************************************)
(* The properties.                                                         *)
(***************************************************************************)
Done(c) == pc = "done" /\ call = c

\* the result of the exact (real) operation is a double: nothing was rounded
Exact(x) == x \in Finite

\* a point's fields in the data model's order: x,y / x,y,z / uL,uR,v
Canon(t, a) ==
  CASE t = "Point2" -> <<a.x, a.y>>
    [] t = "Point3" -> <<a.x, a.y, a.z>>
    [] t = "StereoPoint2" -> <<a.uL, a.uR, a.v>>

Eye2 == <<<<1, 0>>, <<0, 1>>>>

NegEye2 == <<<<-1, 0>>, <<0, -1>>>>

Zeros2 == <<<<0, 0>>, <<0, 0>>>>

\* C1 as stated: for every tol >= 0, equals(p, p, tol) is true, and
\* equals(p, q, 0) is true exactly when all fields of p and q are equal.
C1_Original ==
  Done("equals") =>
    /\ p = q => retBool
    /\ tol = 0 => (retBool <=> p = q)

\* C1 amended: for every tol > 0, equals(p, p, tol) is true; for tol = 0,
\* equals(p, q, 0) is false for every p and q, p = q included.
C1_Amended ==
  Done("equals") =>
    /\ (tol > 0 /\ p = q) => retBool
    /\ tol = 0 => ~retBool

C1_Witness ==
  Done("equals") /\ tol > 0 /\ p = q /\ p.uL # 0 /\ retBool

\* C2: a constructor handed a vector whose length is not the type's
\* dimension fails and produces no point (any failure counts as the error).
C2_Claim ==
  (call = "Expmap" /\ pc # "ready" /\ Len(v) # dimension(ty)) =>
    (pc = "fault" /\ ret = NoPoint)

\* C3: dist(p, q) = dist(q, p) >= 0, and dist(p, q) = 0 exactly when p == q.
C3_Claim ==
  Done("dist") =>
    /\ retNum = dist(ty, q, p)
    /\ retNum >= 0
    /\ retNum = 0 <=> operatorEq(ty, p, q)

\* C4: p.compose(p.inverse()) is the all-zero point of p's type.
C4_Theorem ==
  Done("composeInverse") => ret = Identity(ty)

C4_Witness ==
  /\ Done("composeInverse") /\ ty = "StereoPoint2"
  /\ p.uL # 0 /\ p.uR # 0 /\ p.v # 0
  /\ ret = StereoPoint2(0, 0, 0)

\* C5: Logmap(Expmap(v)) = v for v of the type's dimension, Expmap(Logmap(p)) = p,
\* and both keep the fields in the canonical order.
C5_Theorem ==
  /\ Done("LogmapExpmap") => retVec = v
  /\ Done("ExpmapLogmap") => ret = p
  /\ Done("Logmap") => retVec = Canon(ty, p)
  /\ (Done("Expmap") /\ Len(v) = dimension(ty)) => Canon(ty, ret) = v

C5_Witness ==
  /\ Done("ExpmapLogmap") /\ ty = "Point2"
  /\ p.x # p.y /\ p.x # 0
  /\ ret = p

\* C6 as stated: between(p, q) is q - p, and compose(p, between(p, q)) is q.
C6_Original ==
  Done("between") =>
    /\ ret = Point2(FSub(q.x, p.x), FSub(q.y, p.y))
    /\ compose("Point2", p, ret) = q

\* C6 amended: between(p, q) is q - p in double arithmetic, and
\* compose(p, between(p, q)) is q whenever both differences are exact.
C6_Amended ==
  Done("between") =>
    /\ ret = Point2(FSub(q.x, p.x), FSub(q.y, p.y))
    /\ (Exact(q.x - p.x) /\ Exact(q.y - p.y)) => compose("Point2", p, ret) = q

C6_Witness ==
  /\ Done("between")
  /\ p.x # 0 /\ p.y # 0 /\ q.x # p.x /\ q.y # p.y
  /\ Exact(q.x - p.x) /\ Exact(q.y - p.y)
  /\ compose("Point2", p, ret) = q

\* every sum of the two groupings of a + b + c is exact
ExactSums3(a, b, c) == Exact(a + b) /\ Exact(b + c) /\ Exact(a + b + c)

ExactSums(t, a, b, c) ==
  \A i \in 1..dimension(t) : ExactSums3(Canon(t, a)[i], Canon(t, b)[i], Canon(t, c)[i])

\* C7 as stated: compose is commutative and associative.
C7_Original ==
  /\ Done("compose") => ret = compose(ty, q, p)
  /\ Done("composeAssoc") => ret = compose(ty, p, compose(ty, q, r))

\* C7 amended: compose is commutative; it is associative on p, q, r whenever
\* no coordinate sum of either grouping is rounded.
C7_Amended ==
  /\ Done("compose") => ret = compose(ty, q, p)
  /\ (Done("composeAssoc") /\ ExactSums(ty, p, q, r)) =>
       ret = compose(ty, p, compose(ty, q, r))

C7_Witness ==
  /\ Done("composeAssoc") /\ ty = "Point2"
  /\ p.x # 0 /\ q.x # 0 /\ r.x # 0 /\ p.x # r.x
  /\ ExactSums(ty, p, q, r)
  /\ ret = compose(ty, p, compose(ty, q, r))

\* C8: a requested slot of compose gets the 2x2 identity; of between, H1 gets
\* the negative identity and H2 the identity; the point returned is that of
\* the variant without slots.
C8_Theorem ==
  /\ Done("composeJ") =>
       /\ req1 => H1 = Eye2
       /\ req2 => H2 = Eye2
       /\ ret = Point2(FAdd(p.x, q.x), FAdd(p.y, q.y))
  /\ Done("betweenJ") =>
       /\ req1 => H1 = NegEye2
       /\ req2 => H2 = Eye2
       /\ ret = Point2(FSub(q.x, p.x), FSub(q.y, p.y))

C8_Witness ==
  /\ Done("betweenJ") /\ req1 /\ req2
  /\ p # q
  /\ H1 = NegEye2 /\ H2 = Eye2

\* C9: a call of compose or between with Jacobian slots leaves the caller's
\* matrix of a slot that is not requested as it was, whatever the other slot.
C9_Theorem ==
  [][(call \in {"composeJ", "betweenJ"}) =>
       /\ ~req1 => H1' = H1
       /\ ~req2 => H2' = H2]_vars

C9_Witness ==
  /\ Done("composeJ") /\ ~req1 /\ req2
  /\ H1 = Zeros2 /\ H2 = Eye2

\* C10: p == q on Point2 is true exactly when p.x = q.x and p.y = q.y.
C10_Claim ==
  Done("operator==") => (retBool <=> (p.x = q.x /\ p.y = q.y))

====
